---- MODULE Spec2Model ----
(***************************************************************************)
(* Habit tracker (HabitTracker React component).  The state machine        *)
(* follows the component in src/unnamed/part_000, lines 1-1303: the        *)
(* calendar-year grid, toggleDay with insertion, file import/export and    *)
(* the statistics.  The pure functions of the one-year-lookback component  *)
(* in src/components/habit-tracker.tsx are modelled next to them, with the *)
(* suffix _lookback / _scan.                                               *)
(*                                                                         *)
(* Time.  An instant (a JavaScript Date) is an integer number of hours     *)
(* since 1970-01-01T00:00Z.  A date string "yyyy-mm-dd" is the integer     *)
(* number of days since 1970-01-01: the order of the integers is the       *)
(* lexicographic order of the strings.  The runtime's time zone is part of *)
(* the environment: the local wall clock of an instant u is u + Offset.    *)
(***************************************************************************)
EXTENDS Integers, Sequences, FiniteSets, TLC

VARIABLES
    zone,              \* the runtime's time zone (environment, fixed)
    now,               \* new Date(): the current instant, whole hours
    clock,             \* Date.now() within the hour, the part ids are made of
    habits,            \* useState<Habit[]>([])  (UndefinedHabits after a bad import)
    newHabitName,      \* useState("")
    dateStoppedInput,  \* useState<Date | null>(null)
    showNewHabitForm,  \* useState(false)
    showStreak,        \* useState<{[key: string]: boolean}>({})
    completedColor,    \* useState("#18181b")
    viewMode,          \* useState<'list' | 'grid'>('list')
    alertOpen,         \* an alert() dialog is on screen
    opfs,              \* contents of habit-tracker-data.json in OPFS
    loading,           \* loadData, started at mount, has not finished
    writes,            \* the OPFS saves in flight
    timer,             \* the pending setTimeout(saveData, 1000), with its closure
    lastSaved,         \* useState<Date | null>(null)
    consoleErrors,     \* the messages of console.error
    downloads,         \* the files saveToFile handed to the browser
    editingHabitId,    \* useState<string | null>(null)
    editingHabitName,  \* useState("")
    reorderMode,       \* useState(false)
    checkInMode,       \* useState(false)
    checkInSelections, \* useState<{[key: string]: boolean | null}>({})
    checkInHasInteracted, \* useState(false)
    last               \* the handler that ran last, with its arguments

vars == <<zone, now, clock, habits, newHabitName, dateStoppedInput,
          showNewHabitForm, showStreak, completedColor, viewMode, alertOpen,
          opfs, loading, writes, timer, lastSaved, consoleErrors, downloads,
          editingHabitId, editingHabitName, reorderMode, checkInMode,
          checkInSelections, checkInHasInteracted, last>>

doc == <<habits, completedColor, showStreak, viewMode>>
form == <<newHabitName, dateStoppedInput, showNewHabitForm>>
env == <<zone, now>>
storage == <<opfs, loading, writes, lastSaved, consoleErrors, downloads>>
cards == <<editingHabitId, editingHabitName, reorderMode, checkInMode,
           checkInSelections, checkInHasInteracted>>

MaxHabits == 2
MaxGridHabits == 1
MaxClock == 1
MaxCards == 2
MaxMarked == 2
MaxStoredDays == 3
MaxWrites == 2
MaxDownloads == 1

\* a value that may be null or undefined: Nothing, or Just(x)
Nothing == <<>>
Just(x) == <<x>>

(***************************************************************************)
(* The proleptic Gregorian calendar of the JavaScript Date object.         *)
(***************************************************************************)
DaysFromCivil(y, m, d) ==
    LET yy  == IF m <= 2 THEN y - 1 ELSE y
        era == yy \div 400
        yoe == yy - era * 400
        mp  == IF m > 2 THEN m - 3 ELSE m + 9
        doy == (153 * mp + 2) \div 5 + d - 1
        doe == yoe * 365 + yoe \div 4 - yoe \div 100 + doy
    IN  era * 146097 + doe - 719468

CivilFromDays(n) ==
    LET z   == n + 719468
        era == z \div 146097
        doe == z - era * 146097
        yoe == (doe - doe \div 1460 + doe \div 36524 - doe \div 146096) \div 365
        doy == doe - (365 * yoe + yoe \div 4 - yoe \div 100)
        mp  == (5 * doy + 2) \div 153
        d   == doy - (153 * mp + 2) \div 5 + 1
        m   == IF mp < 10 THEN mp + 3 ELSE mp - 9
        y   == yoe + era * 400
    IN  [y |-> IF m <= 2 THEN y + 1 ELSE y, m |-> m, d |-> d]

\* Date.prototype.getDay on a day number: 0 is Sunday; 1970-01-01 was a Thursday
DayOfWeek(n) == (n + 4) % 7

(***************************************************************************)
(* Time zones.  dst = "us": daylight time from the second Sunday of March, *)
(* 02:00 standard time, to the first Sunday of November, 02:00 daylight    *)
(* time.  dst = "none": a fixed offset.                                    *)
(***************************************************************************)
NewYork   == [name |-> "America/New_York",     std |-> -5, dst |-> "us"]
Utc       == [name |-> "UTC",                  std |-> 0,  dst |-> "none"]
Jburg     == [name |-> "Africa/Johannesburg",  std |-> 2,  dst |-> "none"]
Tongatapu == [name |-> "Pacific/Tongatapu",    std |-> 13, dst |-> "none"]

Zones == {NewYork, Utc, Jburg, Tongatapu}

Years == 2023..2027

\* the first Sunday on or after day n
SundayOnOrAfter(n) == n + ((7 - DayOfWeek(n)) % 7)

\* the instants (hours, UTC) of a zone with std offset s at which US daylight
\* time starts and ends in year y
UsDstStart(y, s) == (SundayOnOrAfter(DaysFromCivil(y, 3, 1)) + 7) * 24 + 2 - s
UsDstEnd(y, s)   == SundayOnOrAfter(DaysFromCivil(y, 11, 1)) * 24 + 2 - (s + 1)

DstWindows == [y \in Years |-> <<UsDstStart(y, 0), UsDstEnd(y, 0)>>]

InDst(z, u) ==
    /\ z.dst = "us"
    /\ \E y \in Years : /\ DstWindows[y][1] - z.std <= u
                        /\ u < DstWindows[y][2] - z.std

\* Date.prototype.getTimezoneOffset, negated, in hours
Offset(z, u) == IF InDst(z, u) THEN z.std + 1 ELSE z.std

\* the wall clock of instant u: hours since 1970-01-01T00:00 local time
LocalHours(z, u) == u + Offset(z, u)

\* the instant whose wall clock reads l (the Date constructor and setters)
FromLocal(z, l) ==
    IF InDst(z, l - (z.std + 1)) THEN l - (z.std + 1) ELSE l - z.std

\* the local calendar date (day number) of instant u
LocalDay(z, u) == LocalHours(z, u) \div 24

\* Date.prototype.setHours(h, 0, 0, 0)
SetHours(z, u, h) == FromLocal(z, LocalDay(z, u) * 24 + h)

\* Date.prototype.setDate(getDate() + k): the wall clock moves k days
AddDays(z, u, k) == FromLocal(z, LocalHours(z, u) + 24 * k)

\* new Date(y, m - 1, d): local midnight of a civil date
NewDateYMD(z, y, m, d) == FromLocal(z, DaysFromCivil(y, m, d) * 24)

\* Date.prototype.getFullYear
GetFullYear(z, u) == CivilFromDays(LocalDay(z, u)).y

\* Date.prototype.setFullYear(y): same local month, day and time of day
SetFullYear(z, u, y) ==
    LET l == LocalHours(z, u)
        c == CivilFromDays(l \div 24)
    IN  FromLocal(z, DaysFromCivil(y, c.m, c.d) * 24 + (l % 24))

\* Date.prototype.toISOString().split('T')[0]: the UTC calendar date
ToISODate(u) == u \div 24

\* new Date("yyyy-mm-dd"): midnight UTC of that date
ParseISODate(d) == d * 24

\* date-fns format(date, 'yyyy-MM-dd'): the local calendar date
FormatLocal(z, u) == LocalDay(z, u)

(***************************************************************************)
(* The calendar grid.                                                      *)
(***************************************************************************)
DayStatus(d, c) == [date |-> d, completed |-> c]

\* the largest element of a finite set of integers, 0 when it is empty
Max0(S) == IF S = {} THEN 0 ELSE CHOOSE x \in S : \A y \in S : y <= x

\* no loop of the component runs longer than this many rounds: a grid is
\* 366 days and at most 6 days of week alignment
LoopCap == 380

\* the values currentDate takes in n rounds of
\*     currentDate.setDate(currentDate.getDate() + 1)
\* starting with cur, and the value after them
RECURSIVE Walk(_, _, _)
Walk(z, cur, n) ==
    IF n = 1 THEN [seq |-> <<cur>>, next |-> AddDays(z, cur, 1)]
    ELSE LET a == Walk(z, cur, n \div 2)
             b == Walk(z, a.next, n - n \div 2)
         IN  [seq |-> a.seq \o b.seq, next |-> b.next]

\* a faulty active range: a missing end date is read as today
ActiveRange_todayDefault(z, today, habitEndDate) ==
    LET stoppedDate == IF habitEndDate = Nothing THEN today
                       ELSE SetHours(z, ParseISODate(habitEndDate[1]), 0)
    IN  IF stoppedDate <= today THEN <<stoppedDate, today>>
                                ELSE <<today, stoppedDate>>

\* the active range of generateDates: <<rangeStart, rangeEnd>>, or Nothing
\* when no end date was given
ActiveRange(z, today, habitEndDate) ==
    IF habitEndDate = Nothing THEN Nothing
    ELSE LET stoppedDate == SetHours(z, ParseISODate(habitEndDate[1]), 0)
         IN  IF stoppedDate <= today THEN <<stoppedDate, today>>
                                     ELSE <<today, stoppedDate>>

\* isCompleted of the record pushed for dateStr
IsCompleted(range, dateStr) ==
    /\ range # Nothing
    /\ LET checkDate == ParseISODate(dateStr)
       IN  checkDate >= range[1] /\ checkDate <= range[2]

\* the while loop of generateDates: currentDate walks from start in steps of
\* one local day while currentDate <= end; each round pushes the record of
\* dateStr = currentDate.toISOString().split('T')[0] unless seenDates has it
GridLoop(z, start, end, range) ==
    LET steps == Walk(z, start, LoopCap).seq
        \* the rounds the loop runs: up to the first currentDate > end
        over  == {i \in 1..LoopCap : ~(steps[i] <= end)}
        n     == IF over = {} THEN LoopCap
                 ELSE (CHOOSE i \in over : \A j \in over : i <= j) - 1
        strs  == [i \in 1..n |-> ToISODate(steps[i])]
        nodup == Cardinality({strs[i] : i \in 1..n}) = n
        fresh == IF nodup THEN 1..n
                 ELSE {i \in 1..n : \A j \in 1..(i - 1) : strs[j] # strs[i]}
        at(k) == IF nodup THEN k
                 ELSE CHOOSE i \in fresh : Cardinality({j \in fresh : j <= i}) = k
    IN  [k \in 1..Cardinality(fresh) |->
            DayStatus(strs[at(k)], IsCompleted(range, strs[at(k)]))]

\* the Sunday on or before a local midnight
StartSunday(z, first) == AddDays(z, first, 0 - DayOfWeek(LocalDay(z, first)))

\* generateDates of the calendar-year component: z and nowU are the
\* environment read by new Date(); habitEndDate is Just(date) or Nothing
generateDates(z, nowU, habitEndDate) ==
    LET today == SetHours(z, nowU, 0)
        currentYear == GetFullYear(z, today)
        jan1  == NewDateYMD(z, currentYear, 1, 1)
        dec31 == NewDateYMD(z, currentYear, 12, 31)
        startDate_calc == StartSunday(z, jan1)
        range == ActiveRange(z, today, habitEndDate)
    IN  GridLoop(z, SetHours(z, startDate_calc, 12), dec31, range)

\* generateDates of the one-year-lookback component
generateDates_lookback(z, nowU, habitEndDate) ==
    LET today == SetHours(z, nowU, 0)
        oneYearAgo == SetHours(z, SetFullYear(z, today, GetFullYear(z, today) - 1), 0)
        startDate_calc == StartSunday(z, oneYearAgo)
        range == ActiveRange(z, today, habitEndDate)
    IN  GridLoop(z, SetHours(z, startDate_calc, 12), today, range)

\* the for loop of the older lookback component: time runs from startTime
\* to endTime in steps of oneDay = 24 hours; each round takes currentDate =
\* new Date(time) set to local midnight and pushes the record of its
\* toISOString date unless seenDates has it; isCompleted compares
\* currentDate itself with the range
MillisLoop(z, startTime, endTime, range) ==
    LET n     == IF endTime < startTime THEN 0
                 ELSE (endTime - startTime) \div 24 + 1
        cur   == [i \in 1..n |-> SetHours(z, startTime + 24 * (i - 1), 0)]
        strs  == [i \in 1..n |-> ToISODate(cur[i])]
        fresh == SelectSeq([i \in 1..n |-> i],
                           LAMBDA i : \A j \in 1..(i - 1) : strs[j] # strs[i])
    IN  [k \in 1..Len(fresh) |->
            DayStatus(strs[fresh[k]],
                      /\ range # Nothing
                      /\ cur[fresh[k]] >= range[1]
                      /\ cur[fresh[k]] <= range[2])]

\* generateDates of the older lookback component
generateDates_millis(z, nowU, habitEndDate) ==
    LET today == SetHours(z, nowU, 0)
        oneYearAgo == SetHours(z, SetFullYear(z, today, GetFullYear(z, today) - 1), 0)
        startDate_calc == StartSunday(z, oneYearAgo)
        range == ActiveRange(z, today, habitEndDate)
    IN  MillisLoop(z, startDate_calc, today, range)

\* generate2025Calendar: the fixed grid the component renders and
\* getCurrentStreak walks
generate2025Calendar(z) ==
    LET jan1  == NewDateYMD(z, 2025, 1, 1)
        dec31 == NewDateYMD(z, 2025, 12, 31)
    IN  GridLoop(z, SetHours(z, StartSunday(z, jan1), 12), dec31, Nothing)

calendar2025 == [z \in Zones |-> generate2025Calendar(z)]

(***************************************************************************)
(* Statistics.                                                             *)
(***************************************************************************)
\* a faulty count: the filter is missing
getCompletedDays_all(habit) == Len(habit.days)

\* habit.days.filter(d => d.completed).length
getCompletedDays(habit) ==
    Cardinality({i \in 1..Len(habit.days) : habit.days[i].completed})

\* completedDays.reduce((earliest, day) =>
\*     day.date < earliest.date ? day : earliest), from the record at k on
RECURSIVE ReduceEarliest(_, _, _)
ReduceEarliest(completedDays, k, earliest) ==
    IF k > Len(completedDays) THEN earliest
    ELSE ReduceEarliest(completedDays, k + 1,
                        IF completedDays[k].date < earliest.date
                        THEN completedDays[k] ELSE earliest)

\* a faulty version that takes the first completed record for the earliest
getEarliestCompletedDate_first(habit) ==
    LET completedDays == SelectSeq(habit.days, LAMBDA d : d.completed)
    IN  IF Len(completedDays) = 0 THEN Nothing ELSE Just(completedDays[1].date)

\* getEarliestCompletedDate: null is Nothing
getEarliestCompletedDate(habit) ==
    LET completedDays == SelectSeq(habit.days, LAMBDA d : d.completed)
    IN  IF Len(completedDays) = 0 THEN Nothing
        ELSE Just(ReduceEarliest(completedDays, 2, completedDays[1]).date)

\* dayDate <= today, with dayDate = new Date(day.date); setHours(0, 0, 0, 0)
UpToToday(z, today, date) == SetHours(z, ParseISODate(date), 0) <= today

\* the dates d with completedDatesMap.get(d) true: Map.set overwrites, so the
\* last record of a date decides
CompletedDates(days) ==
    LET n == Len(days)
    IN  IF Cardinality({days[i].date : i \in 1..n}) = n
        THEN {days[i].date : i \in {j \in 1..n : days[j].completed}}
        ELSE {days[i].date : i \in {j \in 1..n :
                 /\ days[j].completed
                 /\ \A k \in (j + 1)..n : days[k].date # days[j].date}}

\* a faulty loop: the test is inverted, it counts the indices that are not
\* in ok and breaks at the first that is
CountBack_inverted(idx, ok) ==
    LET stop == Max0(idx \cap ok)
    IN  Cardinality({i \in idx : i > stop})

\* a loop that walks the indices in idx from the highest down, adds one per
\* index that is in ok and breaks at the first that is not
CountBack(idx, ok) ==
    LET stop == Max0(idx \ ok)
    IN  Cardinality({i \in idx : i > stop})

\* getCurrentStreak of the calendar-year component
getCurrentStreak(z, nowU, habit) ==
    LET today == SetHours(z, nowU, 0)
        cal == calendar2025[z]
        completedDatesMap == CompletedDates(habit.days)
        relevantDates == {i \in 1..Len(cal) : UpToToday(z, today, cal[i].date)}
        isCompleted == {i \in relevantDates : cal[i].date \in completedDatesMap}
    IN  CountBack(relevantDates, isCompleted)

\* getCurrentStreak of the lookback component: the backwards scan of
\* habit.days, with continue for the records after today
getCurrentStreak_scan(z, nowU, habit) ==
    LET today == SetHours(z, nowU, 0)
        days == habit.days
        upTo == {i \in 1..Len(days) : UpToToday(z, today, days[i].date)}
        isCompleted == {i \in upTo : days[i].completed}
    IN  CountBack(upTo, isCompleted)

(***************************************************************************)
(* Small helpers for the arrays and strings of the component.              *)
(***************************************************************************)
\* a string is the sequence of its characters
Space == " "

\* String.prototype.trim
RECURSIVE TrimStart(_)
TrimStart(s) == IF s # <<>> /\ Head(s) = Space THEN TrimStart(Tail(s)) ELSE s

RECURSIVE TrimEnd(_)
TrimEnd(s) ==
    IF s # <<>> /\ s[Len(s)] = Space THEN TrimEnd(SubSeq(s, 1, Len(s) - 1)) ELSE s

\* a faulty trim that leaves the string as it is
Trim_none(s) == s

Trim(s) == TrimEnd(TrimStart(s))

\* days is strictly ascending by date
Ascending(days) == \A i \in 1..(Len(days) - 1) : days[i].date < days[i + 1].date

\* [...days].sort((a, b) => a.date.localeCompare(b.date)): a stable sort
SortByDate(days) ==
    LET n == Len(days)
        rank(i) == Cardinality({j \in 1..n : days[j].date < days[i].date})
                   + Cardinality({j \in 1..i : days[j].date = days[i].date})
    IN  [k \in 1..n |-> days[CHOOSE i \in 1..n : rank(i) = k]]

\* a faulty insertion: [...days, day] without the sort
InsertSorted_append(days, day) == Append(days, day)

\* [...days, day].sort(...): when days is already strictly ascending and has
\* no record of day.date, the sort puts day after the records before it
InsertSorted(days, day) ==
    IF Ascending(days) /\ \A i \in 1..Len(days) : days[i].date # day.date
    THEN LET k == Cardinality({i \in 1..Len(days) : days[i].date < day.date})
         IN  SubSeq(days, 1, k) \o <<day>> \o SubSeq(days, k + 1, Len(days))
    ELSE SortByDate(Append(days, day))

\* habit.days.some(day => day.date === date)
DateExists(days, date) == \E i \in 1..Len(days) : days[i].date = date

(***************************************************************************)
(* The environment the handlers read.                                      *)
(***************************************************************************)
At(y, m, d, h) == DaysFromCivil(y, m, d) * 24 + h

\* Date.now().toString(): the hour and the milliseconds within it
DateNow == <<now, clock>>

\* the local calendar date of now: the day the user calls today
Today == LocalDay(zone, now)

\* the state after a document without habits was imported: habits is
\* undefined, rendering throws and the component is gone
UndefinedHabits == <<[undefined |-> TRUE]>>

Mounted == habits # UndefinedHabits

\* the user can act on the page: it is rendered and no alert() blocks it
Interactive == Mounted /\ ~alertOpen

DefaultColor == "#18181b"

\* the ids of the habit cards on the page
HabitIds == IF Mounted THEN {habits[i].id : i \in 1..Len(habits)} ELSE {}

(***************************************************************************)
(* The document and its autosave.                                          *)
(***************************************************************************)
\* const data: HabitData = { habits, completedColor, showStreak, viewMode }
HabitData(h, c, s, v) ==
    [habits |-> h, completedColor |-> c, showStreak |-> s, viewMode |-> v]

Doc == HabitData(habits, completedColor, showStreak, viewMode)

\* the effect without its first line: a timer for the empty list too
AutosaveEffect_always(h, c, s, v) ==
    IF h = UndefinedHabits THEN Nothing
    ELSE Just(HabitData(h, c, s, v))

\* the autosave effect after a render with changed dependencies: the cleanup
\* has cleared the old timer; a new one is set, with the document of this
\* render in its closure, unless habits.length === 0 (or habits is undefined
\* and the read throws)
AutosaveEffect(h, c, s, v) ==
    IF h = UndefinedHabits THEN Nothing
    ELSE IF Len(h) = 0 THEN Nothing
    ELSE Just(HabitData(h, c, s, v))

\* the JSON text of a habit: JSON.stringify leaves out a property that is
\* undefined
HabitJson(h) ==
    [k \in {"id", "name", "dateCreated", "days"}
             \cup (IF h.dateStopped = Nothing THEN {} ELSE {"dateStopped"}) |->
        CASE k = "id" -> h.id
          [] k = "name" -> h.name
          [] k = "dateCreated" -> h.dateCreated
          [] k = "days" -> h.days
          [] k = "dateStopped" -> h.dateStopped[1]]

\* the habit object JSON.parse builds: a property the text does not have
\* reads as undefined
HabitOfJson(j) ==
    [id          |-> j.id,
     name        |-> j.name,
     dateCreated |-> j.dateCreated,
     dateStopped |-> IF "dateStopped" \in DOMAIN j THEN Just(j.dateStopped)
                     ELSE Nothing,
     days        |-> j.days]

JsonNull == [null |-> TRUE]

\* a faulty export: only the habits are written
JSONStringify_habitsOnly(data) ==
    IF data = JsonNull THEN JsonNull
    ELSE [k \in {x \in DOMAIN data : x = "habits" /\ data[x] # UndefinedHabits} |->
            [i \in 1..Len(data[k]) |-> HabitJson(data[k][i])]]

\* JSON.stringify(data, null, 2)
JSONStringify(data) ==
    IF data = JsonNull THEN JsonNull
    ELSE [k \in {x \in DOMAIN data :
                    ~(x = "habits" /\ data[x] = UndefinedHabits)} |->
            IF k = "habits"
            THEN [i \in 1..Len(data[k]) |-> HabitJson(data[k][i])]
            ELSE data[k]]

\* JSON.parse(text)
JSONParse(text) ==
    IF text = JsonNull THEN JsonNull
    ELSE [k \in DOMAIN text |->
            IF k = "habits"
            THEN [i \in 1..Len(text[k]) |-> HabitOfJson(text[k][i])]
            ELSE text[k]]

\* a save that has started: who started it, the text it writes, and how far
\* it has come ("start", "created" after createWritable, "written" after
\* write)
Save(by, data) == [by |-> by, data |-> JSONStringify(data), stage |-> "start"]

(***************************************************************************)
(* The new-habit form.                                                     *)
(***************************************************************************)
ToggleNewHabitForm ==
    /\ Interactive
    /\ showNewHabitForm' = ~showNewHabitForm
    /\ last' = [op |-> "toggleForm"]
    /\ UNCHANGED <<env, clock, doc, newHabitName, dateStoppedInput, alertOpen,
                   storage, timer, cards>>

SetNewHabitName(name) ==
    /\ Interactive
    /\ showNewHabitForm
    /\ newHabitName' = name
    /\ last' = [op |-> "setNewHabitName"]
    /\ UNCHANGED <<env, clock, doc, dateStoppedInput, showNewHabitForm,
                   alertOpen, storage, timer, cards>>

\* the date picker hands over a Date of the picked local day
SetDateStoppedInput(picked) ==
    /\ Interactive
    /\ showNewHabitForm
    /\ dateStoppedInput' = picked
    /\ last' = [op |-> "setDateStoppedInput"]
    /\ UNCHANGED <<env, clock, doc, newHabitName, showNewHabitForm, alertOpen,
                   storage, timer, cards>>

cancelNewHabit ==
    /\ Interactive
    /\ showNewHabitForm
    /\ newHabitName' = <<>>
    /\ dateStoppedInput' = Nothing
    /\ showNewHabitForm' = FALSE
    /\ last' = [op |-> "cancelNewHabit"]
    /\ UNCHANGED <<env, clock, doc, alertOpen, storage, timer, cards>>

\* dateStoppedInput ? format(dateStoppedInput, 'yyyy-MM-dd') : undefined
DateStoppedStr(z, input) ==
    IF input = Nothing THEN Nothing ELSE Just(FormatLocal(z, input[1]))

NewHabit(z, nowU, ms, name, input) ==
    [id          |-> ms,
     name        |-> name,
     dateCreated |-> ToISODate(nowU),
     dateStopped |-> DateStoppedStr(z, input),
     days        |-> generateDates(z, nowU, DateStoppedStr(z, input))]

addHabit ==
    /\ Interactive
    /\ showNewHabitForm
    /\ IF Trim(newHabitName) = <<>>
       THEN /\ last' = [op |-> "addHabit", added |-> FALSE]
            /\ UNCHANGED <<doc, form, timer>>
       ELSE /\ habits' = Append(habits, NewHabit(zone, now, DateNow,
                                                 newHabitName, dateStoppedInput))
            /\ newHabitName' = <<>>
            /\ dateStoppedInput' = Nothing
            /\ showNewHabitForm' = FALSE
            /\ last' = [op |-> "addHabit", added |-> TRUE,
                        stop |-> DateStoppedStr(zone, dateStoppedInput)]
            /\ timer' = AutosaveEffect(habits', completedColor, showStreak, viewMode)
            /\ UNCHANGED <<completedColor, showStreak, viewMode>>
    /\ UNCHANGED <<env, clock, alertOpen, storage, cards>>

(***************************************************************************)
(* Habits and days.                                                        *)
(***************************************************************************)
\* the compact card (grid view) has no remove button during the check-in;
\* the card of the list view keeps it, blurred and closed to the pointer
\* but open to the keyboard
removeHabit(id) ==
    /\ Interactive
    /\ ~(checkInMode /\ viewMode = "grid")
    /\ habits' = SelectSeq(habits, LAMBDA h : h.id # id)
    /\ last' = [op |-> "removeHabit"]
    /\ timer' = AutosaveEffect(habits', completedColor, showStreak, viewMode)
    /\ UNCHANGED <<env, clock, form, completedColor, showStreak, viewMode,
                   alertOpen, storage, cards>>

\* a faulty toggle: the record of the date is set to completed, not flipped
ToggledDays_set(days, date) ==
    IF ~DateExists(days, date) THEN InsertSorted(days, DayStatus(date, TRUE))
    ELSE [i \in 1..Len(days) |->
            IF days[i].date = date THEN DayStatus(date, TRUE) ELSE days[i]]

\* the days of a habit that toggleDay(habit.id, date) returns: the map over
\* the records when one has the date, the sorted copy with a new record when
\* none has
ToggledDays(days, date) ==
    LET hits == {i \in 1..Len(days) : days[i].date = date}
    IN  IF hits = {} THEN InsertSorted(days, DayStatus(date, TRUE))
        ELSE IF Cardinality(hits) = 1
        THEN LET i == CHOOSE j \in hits : TRUE
             IN  [days EXCEPT ![i].completed = ~days[i].completed]
        ELSE [i \in 1..Len(days) |->
                IF i \in hits
                THEN [days[i] EXCEPT !.completed = ~days[i].completed]
                ELSE days[i]]

toggleDay(habitId, date) ==
    /\ Interactive
    /\ habits' = [i \in 1..Len(habits) |->
                    IF habits[i].id = habitId
                    THEN [habits[i] EXCEPT !.days = ToggledDays(habits[i].days, date)]
                    ELSE habits[i]]
    /\ last' = [op |-> "toggleDay", id |-> habitId, date |-> date,
                existed |-> {i \in 1..Len(habits) :
                                /\ habits[i].id = habitId
                                /\ DateExists(habits[i].days, date)}]
    /\ timer' = AutosaveEffect(habits', completedColor, showStreak, viewMode)
    /\ UNCHANGED <<env, clock, form, completedColor, showStreak, viewMode,
                   alertOpen, storage, cards>>

(***************************************************************************)
(* Preferences.                                                            *)
(***************************************************************************)
\* showStreak[id], undefined read as false by the ! of the click handler
StreakShown(map, id) == id \in DOMAIN map /\ map[id]

\* setShowStreak({...showStreak, [habit.id]: !showStreak[habit.id]})
ToggleShowStreak(id) ==
    /\ Interactive
    /\ showStreak' = [k \in DOMAIN showStreak \cup {id} |->
                        IF k = id THEN ~StreakShown(showStreak, id)
                        ELSE showStreak[k]]
    /\ last' = [op |-> "setShowStreak"]
    /\ timer' = AutosaveEffect(habits, completedColor, showStreak', viewMode)
    /\ UNCHANGED <<env, clock, form, habits, completedColor, viewMode,
                   alertOpen, storage, cards>>

\* a state setter called with the value the state has: React bails out, no
\* render and no effect
SetCompletedColor(color) ==
    /\ Interactive
    /\ completedColor' = color
    /\ last' = [op |-> "setCompletedColor"]
    /\ timer' = IF color = completedColor THEN timer
                ELSE AutosaveEffect(habits, color, showStreak, viewMode)
    /\ UNCHANGED <<env, clock, form, habits, showStreak, viewMode, alertOpen,
                   storage, cards>>

\* onValueChange={(value) => value && setViewMode(value)}
SetViewMode(value) ==
    /\ Interactive
    /\ viewMode' = value
    /\ last' = [op |-> "setViewMode"]
    /\ timer' = IF value = viewMode THEN timer
                ELSE AutosaveEffect(habits, completedColor, showStreak, value)
    /\ UNCHANGED <<env, clock, form, habits, showStreak, completedColor,
                   alertOpen, storage, cards>>

(***************************************************************************)
(* The habit cards: renaming, reordering, the daily check-in.              *)
(***************************************************************************)
startEditingHabit(habitId) ==
    /\ Interactive
    /\ \E i \in 1..Len(habits) :
          /\ habits[i].id = habitId
          /\ editingHabitName' = habits[i].name
    /\ editingHabitId' = Just(habitId)
    /\ last' = [op |-> "startEditingHabit"]
    /\ UNCHANGED <<env, clock, doc, form, alertOpen, storage, timer, reorderMode,
                   checkInMode, checkInSelections, checkInHasInteracted>>

SetEditingHabitName(name) ==
    /\ Interactive
    /\ editingHabitId # Nothing
    /\ editingHabitName' = name
    /\ last' = [op |-> "setEditingHabitName"]
    /\ UNCHANGED <<env, clock, doc, form, alertOpen, storage, timer,
                   editingHabitId, reorderMode, checkInMode, checkInSelections,
                   checkInHasInteracted>>

saveHabitName(habitId) ==
    /\ Interactive
    /\ editingHabitId = Just(habitId)
    /\ IF Trim(editingHabitName) = <<>>
       THEN /\ last' = [op |-> "saveHabitName", saved |-> FALSE]
            /\ UNCHANGED <<habits, timer, editingHabitId, editingHabitName>>
       ELSE /\ habits' = [i \in 1..Len(habits) |->
                            IF habits[i].id = habitId
                            THEN [habits[i] EXCEPT !.name = Trim(editingHabitName)]
                            ELSE habits[i]]
            /\ editingHabitId' = Nothing
            /\ editingHabitName' = <<>>
            /\ timer' = AutosaveEffect(habits', completedColor, showStreak, viewMode)
            /\ last' = [op |-> "saveHabitName", saved |-> TRUE]
    /\ UNCHANGED <<env, clock, form, completedColor, showStreak, viewMode,
                   alertOpen, storage, reorderMode, checkInMode,
                   checkInSelections, checkInHasInteracted>>

cancelEditingHabit ==
    /\ Interactive
    /\ editingHabitId # Nothing
    /\ editingHabitId' = Nothing
    /\ editingHabitName' = <<>>
    /\ last' = [op |-> "cancelEditingHabit"]
    /\ UNCHANGED <<env, clock, doc, form, alertOpen, storage, timer, reorderMode,
                   checkInMode, checkInSelections, checkInHasInteracted>>

\* onClick={() => setReorderMode(!reorderMode)}
ToggleReorderMode ==
    /\ Interactive
    /\ reorderMode' = ~reorderMode
    /\ last' = [op |-> "setReorderMode"]
    /\ UNCHANGED <<env, clock, doc, form, alertOpen, storage, timer,
                   editingHabitId, editingHabitName, checkInMode,
                   checkInSelections, checkInHasInteracted>>

\* items.findIndex((item) => item.id === id), counted from 1
FindIndex(items, id) ==
    CHOOSE i \in 1..Len(items) :
        /\ items[i].id = id
        /\ \A j \in 1..(i - 1) : items[j].id # id

\* arrayMove(items, from, to) of @dnd-kit/sortable
ArrayMove(items, from, to) ==
    LET rest == [i \in 1..(Len(items) - 1) |->
                    IF i < from THEN items[i] ELSE items[i + 1]]
    IN  [i \in 1..Len(items) |->
            IF i < to THEN rest[i]
            ELSE IF i = to THEN items[from]
            ELSE rest[i - 1]]

\* a card is dropped on another: the cards can be dragged in reorder mode,
\* outside the check-in
handleDragEnd(active, over) ==
    /\ Interactive
    /\ reorderMode /\ ~checkInMode
    /\ IF active # over
       THEN /\ habits' = ArrayMove(habits, FindIndex(habits, active),
                                   FindIndex(habits, over))
            /\ timer' = AutosaveEffect(habits', completedColor, showStreak, viewMode)
       ELSE UNCHANGED <<habits, timer>>
    /\ last' = [op |-> "handleDragEnd"]
    /\ UNCHANGED <<env, clock, form, completedColor, showStreak, viewMode,
                   alertOpen, storage, cards>>

\* today of the check-in: new Date().toISOString().split('T')[0]
CheckInToday == ToISODate(now)

\* the selection a habit starts the check-in with: the completed of its
\* record of today (the first one), null when it has none
InitialSelection(habit) ==
    LET hits == {i \in 1..Len(habit.days) : habit.days[i].date = CheckInToday}
    IN  IF hits = {} THEN Nothing
        ELSE Just(habit.days[CHOOSE i \in hits : \A j \in hits : i <= j].completed)

startCheckIn ==
    /\ Interactive
    /\ ~checkInMode
    /\ checkInSelections' = [id \in HabitIds |->
            InitialSelection(habits[FindIndex(habits, id)])]
    /\ checkInHasInteracted' = FALSE
    /\ checkInMode' = TRUE
    /\ last' = [op |-> "startCheckIn"]
    /\ UNCHANGED <<env, clock, doc, form, alertOpen, storage, timer,
                   editingHabitId, editingHabitName, reorderMode>>

\* checkInSelections[habit.id] is true or false, not null or undefined
Selected(selections, id) == id \in DOMAIN selections /\ selections[id] # Nothing

\* a faulty check-in: today's record is appended without looking for one
CheckedInDays_noLookup(days, today, selection) ==
    Append(days, DayStatus(today, selection))

\* the days of a habit after saveCheckIn with the selection true or false
CheckedInDays(days, today, selection) ==
    IF DateExists(days, today)
    THEN [i \in 1..Len(days) |->
            IF days[i].date = today THEN DayStatus(today, selection) ELSE days[i]]
    ELSE InsertSorted(days, DayStatus(today, selection))

\* the habits saveCheckIn sets
CheckedInHabits(hs, selections, today) ==
    [i \in 1..Len(hs) |->
        IF Selected(selections, hs[i].id)
        THEN [hs[i] EXCEPT !.days =
                 CheckedInDays(hs[i].days, today, selections[hs[i].id][1])]
        ELSE hs[i]]

\* the button "Save" of the check-in
saveCheckIn ==
    /\ Interactive
    /\ checkInMode
    /\ habits' = CheckedInHabits(habits, checkInSelections, CheckInToday)
    /\ checkInMode' = FALSE
    /\ checkInSelections' = <<>>
    /\ timer' = AutosaveEffect(habits', completedColor, showStreak, viewMode)
    /\ last' = [op |-> "saveCheckIn"]
    /\ UNCHANGED <<env, clock, form, completedColor, showStreak, viewMode,
                   alertOpen, storage, editingHabitId, editingHabitName,
                   reorderMode, checkInHasInteracted>>

\* allChecked of the check-in effect: habits.every(habit => its selection
\* is not null and not undefined)
AllChecked(hs, selections) ==
    \A i \in 1..Len(hs) : Selected(selections, hs[i].id)

\* handleCheckInSelection, with the effect that saves the check-in once
\* every habit has a selection
handleCheckInSelection(habitId, completed) ==
    /\ Interactive
    /\ checkInMode
    /\ checkInHasInteracted' = TRUE
    /\ LET selections == [k \in DOMAIN checkInSelections \cup {habitId} |->
                            IF k = habitId THEN Just(completed)
                            ELSE checkInSelections[k]]
           allChecked == AllChecked(habits, selections)
       IN  IF allChecked /\ Len(habits) > 0
           THEN /\ habits' = CheckedInHabits(habits, selections, CheckInToday)
                /\ checkInMode' = FALSE
                /\ checkInSelections' = <<>>
                /\ timer' = AutosaveEffect(habits', completedColor, showStreak,
                                           viewMode)
                /\ last' = [op |-> "handleCheckInSelection", saved |-> TRUE]
           ELSE /\ checkInSelections' = selections
                /\ last' = [op |-> "handleCheckInSelection", saved |-> FALSE]
                /\ UNCHANGED <<habits, checkInMode, timer>>
    /\ UNCHANGED <<env, clock, form, completedColor, showStreak, viewMode,
                   alertOpen, storage, editingHabitId, editingHabitName,
                   reorderMode>>

\* a faulty reset: the habit starts over with no records
ResetDays_cleared(days) == <<>>

\* habit.days.map(day => ({ ...day, completed: false }))
ResetDays(days) == [k \in 1..Len(days) |-> DayStatus(days[k].date, FALSE)]

\* resetHabit of the earlier components, which have a reset button on the
\* card
resetHabit(habitId) ==
    /\ Interactive
    /\ habits' = [i \in 1..Len(habits) |->
                    IF habits[i].id = habitId
                    THEN [habits[i] EXCEPT !.days = ResetDays(habits[i].days)]
                    ELSE habits[i]]
    /\ timer' = AutosaveEffect(habits', completedColor, showStreak, viewMode)
    /\ last' = [op |-> "resetHabit", id |-> habitId]
    /\ UNCHANGED <<env, clock, form, completedColor, showStreak, viewMode,
                   alertOpen, storage, cards>>

(***************************************************************************)
(* Import and export.  A file is its name, whether its text is JSON, and   *)
(* the value JSON.parse returns for it.  A JSON object is a function on    *)
(* the keys it has; the JSON value null is JsonNull.                       *)
(***************************************************************************)
Has(data, key) == key \in DOMAIN data

\* if (data.key): the key is there and its value is not the empty string
Truthy(data, key) == Has(data, key) /\ data[key] # ""

\* reading data.habits throws a TypeError when data is null
ReadThrows(data) == data = JsonNull

\* the state updates of reader.onload for the parsed value data
ImportedHabits(data) == IF Has(data, "habits") THEN data.habits ELSE UndefinedHabits
ImportedColor(data, old) == IF Truthy(data, "completedColor") THEN data.completedColor ELSE old
ImportedStreak(data, old) == IF Has(data, "showStreak") THEN data.showStreak ELSE old
ImportedViewMode(data, old) == IF Truthy(data, "viewMode") THEN data.viewMode ELSE old

File(name, json, value) == [name |-> name, json |-> json, value |-> value]

\* loadFromFile, with reader.onload: picked is Nothing when the file dialog
\* was closed without a file
loadFromFile(picked) ==
    /\ Interactive
    /\ last' = [op |-> "loadFromFile", file |-> picked]
    /\ IF picked = Nothing
       THEN UNCHANGED <<doc, alertOpen, writes, timer>>
       ELSE LET file == picked[1]
            IN  IF ~file.json \/ ReadThrows(file.value)
                THEN /\ alertOpen' = TRUE
                     /\ UNCHANGED <<doc, writes, timer>>
                ELSE /\ habits' = ImportedHabits(file.value)
                     /\ completedColor' = ImportedColor(file.value, completedColor)
                     /\ showStreak' = ImportedStreak(file.value, showStreak)
                     /\ viewMode' = ImportedViewMode(file.value, viewMode)
                     /\ writes' = writes \cup {Save("import", file.value)}
                     /\ timer' = AutosaveEffect(habits', completedColor',
                                                showStreak', viewMode')
                     /\ UNCHANGED alertOpen
    /\ UNCHANGED <<env, clock, form, opfs, lastSaved, consoleErrors, downloads,
                   loading, cards>>

\* the file saveToFile makes of the document d: the browser stores the
\* text, the file holds what JSON.parse returns for it; exported remembers d
Download(d) ==
    [name |-> "habit-tracker-data.json", json |-> TRUE,
     value |-> JSONParse(JSONStringify(d)), exported |-> d]

saveToFile ==
    /\ Interactive
    /\ downloads' = downloads \cup {Download(Doc)}
    /\ last' = [op |-> "saveToFile"]
    /\ UNCHANGED <<env, clock, doc, form, alertOpen, opfs, writes, lastSaved,
                   consoleErrors, timer, loading, cards>>

\* the user closes the alert() dialog
DismissAlert ==
    /\ alertOpen
    /\ alertOpen' = FALSE
    /\ last' = [op |-> "dismissAlert"]
    /\ UNCHANGED <<env, clock, doc, form, storage, timer, cards>>

(***************************************************************************)
(* Saves to OPFS.  createWritable() gives a stream on a swap file; what    *)
(* is written lands in habit-tracker-data.json when close() resolves.      *)
(***************************************************************************)
\* the 1-second timer fires: saveData starts with the document of its closure
TimerFires ==
    /\ timer # Nothing
    /\ ~alertOpen
    /\ writes' = writes \cup {Save("auto", timer[1])}
    /\ timer' = Nothing
    /\ last' = [op |-> "timerFires"]
    /\ UNCHANGED <<env, clock, doc, form, alertOpen, opfs, lastSaved,
                   consoleErrors, downloads, loading, cards>>

\* the menu item "Save Now"
manualSave ==
    /\ Interactive
    /\ writes' = writes \cup {Save("manual", Doc)}
    /\ last' = [op |-> "manualSave"]
    /\ UNCHANGED <<env, clock, doc, form, alertOpen, opfs, lastSaved,
                   consoleErrors, downloads, timer, loading, cards>>

\* a file that lost its contents and has not got the new ones
Truncated == [truncated |-> TRUE]

\* a faulty store: the stream writes into the file itself
FileAfter_inPlace(step, w, file) ==
    CASE step = "createWritable" -> Just(Truncated)
      [] step = "write" -> Just(w.data)
      [] OTHER -> file

\* the contents of habit-tracker-data.json after a step of the save w
FileAfter(step, w, file) ==
    IF step = "close" THEN Just(w.data) ELSE file

\* await fileHandle.createWritable() resolves
OpfsCreateWritable(w) ==
    /\ w \in writes /\ w.stage = "start"
    /\ writes' = (writes \ {w}) \cup {[w EXCEPT !.stage = "created"]}
    /\ opfs' = FileAfter("createWritable", w, opfs)
    /\ last' = [op |-> "opfsCreateWritable"]
    /\ UNCHANGED <<env, clock, doc, form, alertOpen, lastSaved, consoleErrors,
                   downloads, timer, loading, cards>>

\* await writable.write(...) resolves
OpfsWrite(w) ==
    /\ w \in writes /\ w.stage = "created"
    /\ writes' = (writes \ {w}) \cup {[w EXCEPT !.stage = "written"]}
    /\ opfs' = FileAfter("write", w, opfs)
    /\ last' = [op |-> "opfsWrite"]
    /\ UNCHANGED <<env, clock, doc, form, alertOpen, lastSaved, consoleErrors,
                   downloads, timer, loading, cards>>

\* await writable.close() resolves: the file is replaced; saveData and
\* manualSave then call setLastSaved(new Date())
OpfsCommit(w) ==
    /\ w \in writes /\ w.stage = "written"
    /\ opfs' = FileAfter("close", w, opfs)
    /\ writes' = writes \ {w}
    /\ lastSaved' = IF w.by = "import" THEN lastSaved ELSE Just(DateNow)
    /\ last' = [op |-> "opfsCommit", by |-> w.by]
    /\ UNCHANGED <<env, clock, doc, form, alertOpen, consoleErrors, downloads,
                   timer, loading, cards>>

\* the message of the catch block of a save
ErrorMessage(by) ==
    CASE by = "auto" -> "Error auto-saving:"
      [] by = "manual" -> "Error saving:"
      [] by = "import" -> "Error saving to OPFS:"

\* a faulty save: setLastSaved(new Date()) runs in a finally block, after
\* the catch block too
OpfsFail_stamped(w) ==
    /\ w \in writes
    /\ writes' = writes \ {w}
    /\ consoleErrors' = consoleErrors \cup {ErrorMessage(w.by)}
    /\ alertOpen' = (alertOpen \/ w.by = "manual")
    /\ lastSaved' = Just(DateNow)
    /\ last' = [op |-> "opfsFail", by |-> w.by, stage |-> w.stage]
    /\ UNCHANGED <<env, clock, doc, form, opfs, downloads, timer, loading, cards>>

\* a step of a save rejects: the catch block logs the error; manualSave
\* also shows an alert
OpfsFail(w) ==
    /\ w \in writes
    /\ writes' = writes \ {w}
    /\ consoleErrors' = consoleErrors \cup {ErrorMessage(w.by)}
    /\ alertOpen' = (alertOpen \/ w.by = "manual")
    /\ last' = [op |-> "opfsFail", by |-> w.by, stage |-> w.stage]
    /\ UNCHANGED <<env, clock, doc, form, opfs, lastSaved, downloads, timer,
                   loading, cards>>

\* JSON.parse(text) throws a SyntaxError: the file has no text
ParseThrows(text) == text = Truncated

\* the values loadData sets for the parsed value data: data.key || default
LoadedHabits(data) == IF Has(data, "habits") THEN data.habits ELSE <<>>

LoadedColor(data) ==
    IF Truthy(data, "completedColor") THEN data.completedColor ELSE DefaultColor

LoadedStreak(data) == IF Has(data, "showStreak") THEN data.showStreak ELSE <<>>

LoadedViewMode(data) == IF Truthy(data, "viewMode") THEN data.viewMode ELSE "list"

\* loadData, started by the effect of the mount, comes to its end: it has
\* read the file and sets the four states, or its catch block logs with
\* console.log that there is no data
loadData ==
    /\ loading
    /\ Mounted /\ ~alertOpen
    /\ loading' = FALSE
    /\ IF opfs = Nothing \/ ParseThrows(opfs[1]) \/ ReadThrows(JSONParse(opfs[1]))
       THEN /\ last' = [op |-> "loadData", read |-> Nothing]
            /\ UNCHANGED <<doc, timer>>
       ELSE LET data == JSONParse(opfs[1])
            IN  /\ habits' = LoadedHabits(data)
                /\ completedColor' = LoadedColor(data)
                /\ showStreak' = LoadedStreak(data)
                /\ viewMode' = LoadedViewMode(data)
                /\ timer' = AutosaveEffect(habits', completedColor', showStreak',
                                           viewMode')
                /\ last' = [op |-> "loadData", read |-> Just(data)]
    /\ UNCHANGED <<env, clock, form, alertOpen, opfs, writes, lastSaved,
                   consoleErrors, downloads, cards>>

\* time passes between two handlers
Tick ==
    /\ clock < MaxClock
    /\ clock' = clock + 1
    /\ last' = [op |-> "tick"]
    /\ UNCHANGED <<env, doc, form, alertOpen, storage, timer, cards>>

(***************************************************************************)
(* Inputs.                                                                 *)
(***************************************************************************)
Instants ==
    {At(2025, 6, 15, 12), At(2025, 6, 15, 2), At(2025, 1, 5, 12),
     At(2025, 3, 9, 3), At(2025, 12, 31, 12), At(2026, 11, 1, 12),
     At(2024, 2, 29, 12)}

Names == {<<>>, <<Space>>, <<"r", "u", "n">>}

\* the days the user picks in the date picker, relative to today
StopOffsets == {0 - 10, 0, 1, 3}

Picks == {Nothing} \cup {Just(FromLocal(zone, (Today + k) * 24)) : k \in StopOffsets}

Colors == {DefaultColor, "#22c55e"}

\* what the text field of the colour can hold: a colour, or nothing
ColorTexts == {"#22c55e", ""}

ViewModes == {"list", "grid"}

\* the squares the user clicks: the first and the last square of the rendered
\* calendar and the squares of yesterday, today and tomorrow
Squares ==
    LET cal == calendar2025[zone]
    IN  {cal[i].date : i \in {1, Len(cal)}}
        \cup {cal[i].date : i \in {j \in 1..Len(cal) :
                 cal[j].date \in (ToISODate(now) - 1)..(ToISODate(now) + 1)}}

Day(y, m, d) == DaysFromCivil(y, m, d)

ReadHabit ==
    [id |-> <<At(2025, 6, 1, 9), 0>>, name |-> <<"r", "e", "a", "d">>,
     dateCreated |-> Day(2025, 6, 1), dateStopped |-> Nothing,
     days |-> <<DayStatus(Day(2025, 6, 14), TRUE),
                DayStatus(Day(2025, 6, 15), FALSE)>>]

Files ==
    {File("notes.txt", FALSE, JsonNull),
     File("null.json", TRUE, JsonNull),
     File("prefs-only.json", TRUE, [completedColor |-> "#22c55e"]),
     File("old.json", TRUE, [habits |-> <<ReadHabit>>]),
     File("full.json", TRUE,
          [habits |-> <<ReadHabit>>, completedColor |-> "#3b82f6",
           showStreak |-> [k \in {ReadHabit.id} |-> TRUE], viewMode |-> "grid"])}

(***************************************************************************)
(* The component: the state after mount and every handler.  InitStored is  *)
(* the state the first render leaves, with loadData started and one of     *)
(* files in OPFS; InitEnv is the state with no document in OPFS once       *)
(* loadData has found none.                                                *)
(***************************************************************************)
InitStored(zones, instants, files, pending) ==
    /\ zone \in zones
    /\ now \in instants
    /\ clock = 0
    /\ habits = <<>>
    /\ newHabitName = <<>>
    /\ dateStoppedInput = Nothing
    /\ showNewHabitForm = FALSE
    /\ showStreak = <<>>
    /\ completedColor = DefaultColor
    /\ viewMode = "list"
    /\ alertOpen = FALSE
    /\ opfs \in files
    /\ loading = pending
    /\ writes = {}
    /\ timer = Nothing
    /\ lastSaved = Nothing
    /\ consoleErrors = {}
    /\ downloads = {}
    /\ editingHabitId = Nothing
    /\ editingHabitName = <<>>
    /\ reorderMode = FALSE
    /\ checkInMode = FALSE
    /\ checkInSelections = <<>>
    /\ checkInHasInteracted = FALSE
    /\ last = [op |-> "mount"]

InitEnv(zones, instants) == InitStored(zones, instants, {Nothing}, FALSE)

Init == InitEnv(Zones, Instants)

Next ==
    \/ ToggleNewHabitForm
    \/ \E name \in Names : SetNewHabitName(name)
    \/ \E picked \in Picks : SetDateStoppedInput(picked)
    \/ cancelNewHabit
    \/ Len(habits) < MaxHabits /\ addHabit
    \/ \E id \in HabitIds : removeHabit(id)
    \/ \E id \in HabitIds, date \in Squares : toggleDay(id, date)
    \/ \E id \in HabitIds : ToggleShowStreak(id)
    \/ \E color \in Colors : SetCompletedColor(color)
    \/ \E value \in ViewModes : SetViewMode(value)
    \/ \E id \in HabitIds : startEditingHabit(id)
    \/ \E name \in Names : SetEditingHabitName(name)
    \/ \E id \in HabitIds : saveHabitName(id)
    \/ cancelEditingHabit
    \/ ToggleReorderMode
    \/ \E active, over \in HabitIds : handleDragEnd(active, over)
    \/ startCheckIn
    \/ \E id \in HabitIds, completed \in BOOLEAN : handleCheckInSelection(id, completed)
    \/ saveCheckIn
    \/ \E picked \in {Nothing} \cup {Just(f) : f \in Files \cup downloads} :
          Cardinality(writes) < MaxWrites /\ loadFromFile(picked)
    \/ saveToFile
    \/ DismissAlert
    \/ Cardinality(writes) < MaxWrites /\ TimerFires
    \/ Cardinality(writes) < MaxWrites /\ manualSave
    \/ \E w \in writes : OpfsCreateWritable(w)
    \/ \E w \in writes : OpfsWrite(w)
    \/ \E w \in writes : OpfsCommit(w)
    \/ \E w \in writes : OpfsFail(w)
    \/ loadData
    \/ Tick

Spec == Init /\ [][Next]_vars

(***************************************************************************)
(* The component restricted to the new-habit form: every time zone and     *)
(* instant, every name and picked date.                                    *)
(***************************************************************************)
GridNext ==
    \/ ToggleNewHabitForm
    \/ \E name \in Names : SetNewHabitName(name)
    \/ \E picked \in Picks : SetDateStoppedInput(picked)
    \/ cancelNewHabit
    \/ Len(habits) < MaxGridHabits /\ addHabit

SpecGrid == Init /\ [][GridNext]_vars

(***************************************************************************)
(* The component restricted to the habit cards: habits are added with no   *)
(* stop date, removed, and their squares clicked.                          *)
(***************************************************************************)
DaysInit ==
    \/ InitEnv({Utc}, {At(2025, 6, 15, 12)})
    \/ InitEnv({Tongatapu}, {At(2026, 11, 1, 12)})

\* the first square of the rendered calendar and the square of today
DaysSquares ==
    LET cal == calendar2025[zone]
    IN  {cal[i].date : i \in {j \in 1..Len(cal) :
            j = 1 \/ cal[j].date = ToISODate(now)}}

DaysNext ==
    \/ ToggleNewHabitForm
    \/ SetNewHabitName(<<"r", "u", "n">>)
    \/ Len(habits) < MaxHabits /\ addHabit
    \/ \E id \in HabitIds : removeHabit(id)
    \/ \E id \in HabitIds, date \in DaysSquares : toggleDay(id, date)
    \/ Tick

SpecDays == DaysInit /\ [][DaysNext]_vars

(***************************************************************************)
(* The component restricted to the habit cards of a user who does one      *)
(* thing at a time: adds a habit, clicks a square, renames, reorders,      *)
(* resets, removes, or does the check-in.  On December 31 of 2026 the      *)
(* squares of the 2025 calendar and the day of the check-in are dates the  *)
(* grid of a new habit does not have.                                      *)
(***************************************************************************)
CardsInit == InitEnv({Utc}, {At(2026, 12, 31, 12)})

\* no form, editor, reorder mode or check-in is open
Idle ==
    /\ ~showNewHabitForm
    /\ editingHabitId = Nothing
    /\ ~reorderMode
    /\ ~checkInMode

FirstSquare == calendar2025[zone][1].date

CardsNext ==
    \/ Idle /\ Len(habits) < MaxCards /\ ToggleNewHabitForm
    \/ newHabitName = <<>> /\ SetNewHabitName(<<"r", "u", "n">>)
    \/ newHabitName # <<>> /\ addHabit
    \/ Idle /\ \E id \in HabitIds : removeHabit(id)
    \/ Idle /\ \E id \in HabitIds : toggleDay(id, FirstSquare)
    \/ Idle /\ \E id \in HabitIds : resetHabit(id)
    \/ Idle /\ \E id \in HabitIds : startEditingHabit(id)
    \/ \E id \in HabitIds : saveHabitName(id)
    \/ (Idle \/ reorderMode) /\ ToggleReorderMode
    \/ \E active, over \in HabitIds : handleDragEnd(active, over)
    \/ Idle /\ startCheckIn
    \/ \E id \in HabitIds, completed \in BOOLEAN :
          handleCheckInSelection(id, completed)
    \/ saveCheckIn
    \/ showNewHabitForm /\ newHabitName # <<>> /\ Tick

SpecCards == CardsInit /\ [][CardsNext]_vars

(***************************************************************************)
(* The earlier component restricted to the reset: habits are added with a  *)
(* stop date ten days back or none, today's square is clicked, and habits  *)
(* are reset.                                                              *)
(***************************************************************************)
ResetInit == InitEnv({Utc}, {At(2025, 6, 15, 12)})

ResetNext ==
    \/ ~showNewHabitForm /\ Len(habits) < MaxCards /\ ToggleNewHabitForm
    \/ newHabitName = <<>> /\ SetNewHabitName(<<"r", "u", "n">>)
    \/ /\ dateStoppedInput = Nothing
       /\ SetDateStoppedInput(Just(FromLocal(zone, (Today - 10) * 24)))
    \/ newHabitName # <<>> /\ addHabit
    \/ showNewHabitForm /\ newHabitName # <<>> /\ Tick
    \/ \E id \in HabitIds : toggleDay(id, Today)
    \/ \E id \in HabitIds : resetHabit(id)

SpecReset == ResetInit /\ [][ResetNext]_vars

(***************************************************************************)
(* The component from its first render, with loadData pending and a file   *)
(* of an earlier session (or none) in OPFS: the user adds and removes      *)
(* habits and switches the view while the load and an autosave run.        *)
(***************************************************************************)
\* what an earlier session can have left in OPFS: nothing, a file without
\* text, the files of Files, and a document saved with the colour field
\* emptied
Stored ==
    {Nothing, Just(Truncated)}
        \cup {Just(JSONStringify(f.value)) : f \in {g \in Files : g.json}}
        \cup {Just(JSONStringify(HabitData(<<ReadHabit>>, "", <<>>, "grid")))}

LoadInit == InitStored({Utc}, {At(2025, 6, 15, 12)}, Stored, TRUE)

LoadNext ==
    \/ loadData
    \/ loading /\ ~showNewHabitForm /\ Len(habits) < MaxHabits /\ ToggleNewHabitForm
    \/ newHabitName = <<>> /\ SetNewHabitName(<<"r", "u", "n">>)
    \/ newHabitName # <<>> /\ addHabit
    \/ \E id \in HabitIds : removeHabit(id)
    \/ SetViewMode("grid")
    \/ writes = {} /\ TimerFires
    \/ \E w \in writes : OpfsCreateWritable(w)
    \/ \E w \in writes : OpfsWrite(w)
    \/ \E w \in writes : OpfsCommit(w)

SpecLoad == LoadInit /\ [][LoadNext]_vars

(***************************************************************************)
(* The component opened on a file an earlier version or an import left in  *)
(* OPFS: one habit whose records are in any order, with dates twice.  The  *)
(* user clicks the squares of those dates and resets the habit.            *)
(***************************************************************************)
StoredDates == {Day(2025, 6, 13), Day(2025, 6, 14), Day(2025, 6, 15)}

StoredDays ==
    UNION {[1..n -> {DayStatus(d, c) : d \in StoredDates, c \in BOOLEAN}] :
             n \in 0..MaxStoredDays}

StatsInit ==
    InitStored({Utc}, {At(2025, 6, 15, 12)},
               {Just(JSONStringify([habits |-> <<[ReadHabit EXCEPT !.days = days]>>])) :
                   days \in StoredDays},
               TRUE)

StatsNext ==
    \/ loadData
    \/ \E id \in HabitIds, date \in StoredDates : toggleDay(id, date)
    \/ \E id \in HabitIds : resetHabit(id)

SpecStats == StatsInit /\ [][StatsNext]_vars

(***************************************************************************)
(* The component restricted to the daily check-in, in the list view: on an *)
(* evening in New York, when the date of toISOString() is tomorrow's and   *)
(* every habit has a record of it, and on December 31 in UTC, when no      *)
(* habit has a record of the day.                                          *)
(***************************************************************************)
CheckInInit ==
    \/ InitEnv({NewYork}, {At(2025, 6, 15, 2)})
    \/ InitEnv({Utc}, {At(2025, 12, 31, 12)})

CheckInNext ==
    \/ Idle /\ Len(habits) < MaxCards /\ ToggleNewHabitForm
    \/ newHabitName = <<>> /\ SetNewHabitName(<<"r", "u", "n">>)
    \/ newHabitName # <<>> /\ addHabit
    \/ showNewHabitForm /\ newHabitName # <<>> /\ Tick
    \/ Idle /\ habits # <<>> /\ startCheckIn
    \/ \E id \in HabitIds, completed \in BOOLEAN :
          handleCheckInSelection(id, completed)
    \/ saveCheckIn
    \/ \E id \in HabitIds : removeHabit(id)

SpecCheckIn == CheckInInit /\ [][CheckInNext]_vars

(***************************************************************************)
(* The component restricted to the preferences and the import.             *)
(***************************************************************************)
ImportInit == InitEnv(Zones, {At(2025, 6, 15, 12)})

ImportNext ==
    \/ \E id \in HabitIds : ToggleShowStreak(id)
    \/ \E color \in Colors : SetCompletedColor(color)
    \/ \E value \in ViewModes : SetViewMode(value)
    \/ \E picked \in {Nothing} \cup {Just(f) : f \in Files} :
          Cardinality(writes) < MaxWrites /\ loadFromFile(picked)
    \/ DismissAlert
    \/ \E w \in writes : OpfsCreateWritable(w)
    \/ \E w \in writes : OpfsWrite(w)
    \/ \E w \in writes : OpfsCommit(w)
    \/ \E w \in writes : OpfsFail(w)

SpecImport == ImportInit /\ [][ImportNext]_vars

(***************************************************************************)
(* The component restricted to the autosave: a document is imported,       *)
(* changed, and saved by the timer.                                        *)
(***************************************************************************)
SaveInit == InitEnv({Utc}, {At(2025, 6, 15, 12)})

OldJson == CHOOSE f \in Files : f.name = "old.json"

SaveNext ==
    \/ Cardinality(writes) < MaxWrites /\ loadFromFile(Just(OldJson))
    \/ \E id \in HabitIds : removeHabit(id)
    \/ \E value \in ViewModes : SetViewMode(value)
    \/ Cardinality(writes) < MaxWrites /\ TimerFires
    \/ \E w \in writes : OpfsCreateWritable(w)
    \/ \E w \in writes : OpfsWrite(w)
    \/ \E w \in writes : OpfsCommit(w)

SpecSave == SaveInit /\ [][SaveNext]_vars

(***************************************************************************)
(* The component restricted to export and import: a document is imported,  *)
(* its preferences are changed, it is exported, and an exported file is    *)
(* imported again.                                                         *)
(***************************************************************************)
ExportNext ==
    \/ writes = {} /\ loadFromFile(Just(OldJson))
    \/ \E f \in downloads : writes = {} /\ loadFromFile(Just(f))
    \/ \E id \in HabitIds : removeHabit(id)
    \/ \E id \in HabitIds : ToggleShowStreak(id)
    \/ \E color \in ColorTexts : SetCompletedColor(color)
    \/ SetViewMode("grid")
    \/ Cardinality(downloads) < MaxDownloads /\ saveToFile
    \/ \E w \in writes : OpfsFail(w)

SpecExport == SaveInit /\ [][ExportNext]_vars

(***************************************************************************)
(* The component restricted to the saves and their failures.               *)
(***************************************************************************)
FailNext ==
    \/ Cardinality(writes) < MaxWrites /\ loadFromFile(Just(OldJson))
    \/ SetViewMode("grid")
    \/ Cardinality(writes) < MaxWrites /\ TimerFires
    \/ Cardinality(writes) < MaxWrites /\ manualSave
    \/ \E w \in writes : OpfsCreateWritable(w)
    \/ \E w \in writes : OpfsWrite(w)
    \/ \E w \in writes : OpfsCommit(w)
    \/ \E w \in writes : OpfsFail(w)
    \/ DismissAlert

SpecFail == SaveInit /\ [][FailNext]_vars

(***************************************************************************)
(* Properties of the grid a new habit gets.  They are stated of the state  *)
(* addHabit leaves: the last habit's days are what generateDates returned  *)
(* for the environment <<zone, now>> and the stop date last.stop.          *)
(***************************************************************************)
JustAdded == last.op = "addHabit" /\ last.added

Added == habits[Len(habits)]

\* the grid the lookback component builds for the same input
AddedLookback == generateDates_lookback(zone, now, last.stop)

Dates(days) == {days[i].date : i \in 1..Len(days)}

CompletedIn(days) == {days[i].date : i \in {j \in 1..Len(days) : days[j].completed}}

SundayOnOrBefore(d) == d - DayOfWeek(d)

CurrentYear == CivilFromDays(Today).y

\* the local calendar day one year before today
OneYearAgo ==
    LET c == CivilFromDays(Today) IN DaysFromCivil(c.y - 1, c.m, c.d)

Min2(a, b) == IF a <= b THEN a ELSE b

Max2(a, b) == IF a <= b THEN b ELSE a

SpansWindow(days, windowStart, windowEnd) ==
    /\ days # <<>>
    /\ days[1].date = SundayOnOrBefore(windowStart)
    /\ days[Len(days)].date = windowEnd
    /\ SundayOnOrBefore(windowStart)..windowEnd \subseteq Dates(days)

\* C1: the grid generateDates returns starts on the Sunday on or before the
\* window's start (January 1 of the current year; one year before today in
\* the lookback component), ends on the window's end (December 31; today)
\* and has every calendar day between the two.
C1_GridSpansWindow ==
    JustAdded =>
        /\ SpansWindow(Added.days, DaysFromCivil(CurrentYear, 1, 1),
                       DaysFromCivil(CurrentYear, 12, 31))
        /\ SpansWindow(AddedLookback, OneYearAgo, Today)

Consecutive(days) ==
    \A i \in 1..(Len(days) - 1) : days[i + 1].date = days[i].date + 1

\* C2: for every today and every stop date the grid generateDates returns is
\* strictly ascending, each date the day after its predecessor, and its
\* first date is a Sunday.
C2_GridConsecutiveFromSunday ==
    JustAdded =>
        /\ Consecutive(Added.days)
        /\ DayOfWeek(Added.days[1].date) = 0
        /\ Consecutive(AddedLookback)
        /\ DayOfWeek(AddedLookback[1].date) = 0

\* the stop date 10 days before today was picked
StoppedTenDaysAgo == JustAdded /\ last.stop = Just(Today - 10)

\* C3: a habit added today with the stop date 10 days before today has the
\* 11 days from the stop date through today completed and no other, so
\* getCompletedDays is 11 and getCurrentStreak is 11.
C3_TenDaysAgoGivesEleven ==
    StoppedTenDaysAgo =>
        /\ CompletedIn(Added.days) = (Today - 10)..Today
        /\ getCompletedDays(Added) = 11
        /\ getCurrentStreak(zone, now, Added) = 11

\* C4: with stop date s picked on day t a generated record is completed
\* exactly when min(s, t) <= date <= max(s, t); with no stop date no record
\* is completed.
C4_CompletedIffInRange ==
    JustAdded =>
        \A i \in 1..Len(Added.days) :
            LET d == Added.days[i].date
            IN  Added.days[i].completed <=>
                    /\ last.stop # Nothing
                    /\ Min2(last.stop[1], Today) <= d
                    /\ d <= Max2(last.stop[1], Today)

AddedWithoutStop == JustAdded /\ last.stop = Nothing

\* C5: a habit added with no stop date has a populated grid in which no
\* record is completed: getCompletedDays is 0 and getCurrentStreak is 0.
C5_NoStopDateNothingCompleted ==
    AddedWithoutStop =>
        /\ Len(Added.days) > 0
        /\ \A i \in 1..Len(Added.days) : ~Added.days[i].completed
        /\ getCompletedDays(Added) = 0
        /\ getCurrentStreak(zone, now, Added) = 0

\* a habit was added with no stop date while today lies inside its grid
C5_Witness ==
    /\ AddedWithoutStop
    /\ Today \in Dates(Added.days)
    /\ Len(Added.days) >= 365

(***************************************************************************)
(* Properties of toggleDay.  Every handler records itself in last, so a    *)
(* step into a state with last.op = "toggleDay" is a step of toggleDay,    *)
(* with the arguments last.id and last.date.                               *)
(***************************************************************************)
ToggleStep == last'.op = "toggleDay"

\* days without its k-th record
Without(days, k) ==
    [j \in 1..(Len(days) - 1) |-> IF j < k THEN days[j] ELSE days[j + 1]]

InsertedInto(old, new, date) ==
    /\ Len(new) = Len(old) + 1
    /\ \E k \in 1..Len(new) :
          /\ new[k] = DayStatus(date, TRUE)
          /\ Without(new, k) = old
    /\ \A j \in 1..(Len(new) - 1) : new[j].date <= new[j + 1].date

\* C6: toggleDay(habitId, date) for a date the habit has no record of adds
\* the record {date, completed: true}, leaves every record the habit had as
\* it was, and leaves the habit's days sorted ascending by date.
C6_ToggleAbsentInserts ==
    [][ToggleStep =>
          /\ Len(habits') = Len(habits)
          /\ \A i \in 1..Len(habits) :
                (habits[i].id = last'.id
                    /\ ~DateExists(habits[i].days, last'.date))
                => InsertedInto(habits[i].days, habits'[i].days, last'.date)]_vars

\* toggleDay put a record before the first record of a generated grid
C6_Witness ==
    /\ last.op = "toggleDay"
    /\ \E i \in 1..Len(habits) :
          /\ habits[i].id = last.id
          /\ i \notin last.existed
          /\ Len(habits[i].days) > 365
          /\ habits[i].days[1] = DayStatus(last.date, TRUE)

FlippedAt(old, new, date) ==
    /\ Len(new) = Len(old)
    /\ \E k \in 1..Len(old) :
          /\ old[k].date = date
          /\ new = [old EXCEPT ![k] = DayStatus(date, ~old[k].completed)]

\* C7: toggleDay(habitId, date) for a date the habit has a record of flips
\* completed of exactly that record: the habit's other records and fields,
\* the habits with another id, the order of the habits and the preferences
\* completedColor, showStreak and viewMode stay as they were.
C7_ToggleExistingFlipsOne ==
    [][ToggleStep =>
          /\ Len(habits') = Len(habits)
          /\ <<completedColor', showStreak', viewMode'>>
                = <<completedColor, showStreak, viewMode>>
          /\ \A i \in 1..Len(habits) :
                /\ habits[i].id # last'.id => habits'[i] = habits[i]
                /\ (habits[i].id = last'.id
                       /\ DateExists(habits[i].days, last'.date))
                   => /\ FlippedAt(habits[i].days, habits'[i].days, last'.date)
                      /\ habits'[i] = [habits[i] EXCEPT !.days = habits'[i].days]]_vars

\* toggleDay switched a completed record of one of two habits back off
C7_Witness ==
    /\ last.op = "toggleDay"
    /\ Len(habits) = 2
    /\ \E i, j \in 1..Len(habits) :
          /\ habits[i].id = last.id
          /\ habits[j].id # last.id
          /\ i \in last.existed
          /\ CompletedIn(habits[j].days) # {}
          /\ \E k \in 1..Len(habits[i].days) :
                habits[i].days[k] = DayStatus(last.date, FALSE)

(***************************************************************************)
(* Properties of the streak.                                               *)
(***************************************************************************)
\* the streak of the records dated on or before today: the completed records
\* counted from the latest of them down to the first that is not completed
StreakUpTo(days, today) ==
    LET eligible == {i \in 1..Len(days) : days[i].date <= today}
        isCompleted == {i \in eligible : days[i].completed}
    IN  CountBack(eligible, isCompleted)

\* C8: getCurrentStreak scans the habit's records from the latest to the
\* earliest, passes over the records dated after today, counts the completed
\* records from the latest record dated on or before today and stops at the
\* first record that is not completed.
C8_StreakCountsBackFromToday ==
    Mounted =>
        \A i \in 1..Len(habits) :
            /\ getCurrentStreak(zone, now, habits[i])
                  = StreakUpTo(habits[i].days, Today)
            /\ getCurrentStreak_scan(zone, now, habits[i])
                  = StreakUpTo(habits[i].days, Today)

(***************************************************************************)
(* Properties of the import.                                               *)
(***************************************************************************)
Imported == last.op = "loadFromFile" /\ last.file # Nothing

OmitsPreferences(data) ==
    /\ Has(data, "habits")
    /\ ~Has(data, "completedColor")
    /\ ~Has(data, "showStreak")
    /\ ~Has(data, "viewMode")

\* C9: after the import of a document that has habits and none of
\* completedColor, showStreak and viewMode, completedColor is "#18181b",
\* showStreak is {} and viewMode is "list", whatever they were, and habits
\* is the document's habits.
C9_ImportDefaultsPreferences ==
    (Imported /\ last.file[1].json /\ OmitsPreferences(last.file[1].value)) =>
        /\ completedColor = DefaultColor
        /\ showStreak = <<>>
        /\ viewMode = "list"
        /\ habits = last.file[1].value.habits

\* the file is not JSON, or its JSON has no habits
Malformed(file) == ~file.json \/ ~Has(file.value, "habits")

\* C10: loadFromFile of a file that is not JSON, or whose JSON has no
\* habits, shows the user an error and leaves habits, completedColor,
\* showStreak and viewMode as they were.
C10_MalformedImportChangesNothing ==
    [][(last'.op = "loadFromFile" /\ last'.file # Nothing
            /\ Malformed(last'.file[1]))
        => (alertOpen' /\ doc' = doc)]_vars

(***************************************************************************)
(* Properties of the autosave.  The model has no clock for the 1-second    *)
(* window: a run of mutations each within the window of the one before is  *)
(* a run of steps with no step of TimerFires among them.                   *)
(***************************************************************************)
\* a step that changes the document and leaves the page rendered
Mutation == doc' # doc /\ habits' # UndefinedHabits

\* the autosaves in flight
AutoSaves == {w \in writes : w.by = "auto"}

\* C11: every mutation of the document, whatever document it leaves,
\* replaces the pending autosave timer by a new one for the document it
\* leaves, so that the autosave after the last mutation persists the
\* in-memory document.
C11_EveryMutationSchedulesAutosave ==
    [][Mutation => timer' = Just(Doc')]_vars

\* C12: mutations that follow each other within the debounce window give
\* one autosave: a mutation starts no write and leaves one timer, for the
\* document it leaves, and the timer's firing starts the one write, of the
\* document as it is then.
C12_BurstGivesOneAutosave ==
    [][/\ Mutation => (AutoSaves' = AutoSaves /\ timer' = Just(Doc'))
       /\ last'.op = "timerFires" =>
             (AutoSaves' = AutoSaves \cup {Save("auto", Doc)} /\ timer' = Nothing)]_vars

\* C13: debounced saves do not run concurrently: while an autosave is in
\* flight no other autosave is.
C13_OneAutosaveInFlight == Cardinality(AutoSaves) <= 1

(***************************************************************************)
(* Properties of export and import.                                        *)
(***************************************************************************)
\* a file made by saveToFile was imported
ImportedDownload == Imported /\ Has(last.file[1], "exported")

\* the optional fields of a document all have a value
Populated(d) == d.completedColor # "" /\ d.viewMode # ""

\* C14: importing a file that saveToFile made of a document whose optional
\* fields are all populated leaves the in-memory document (habits,
\* completedColor, showStreak, viewMode) equal to the exported one, whatever
\* it was before the import.
C14_ExportImportRoundTrip ==
    (ImportedDownload /\ Populated(last.file[1].exported)) =>
        Doc = last.file[1].exported

\* a file exported from a document with a habit, a shown streak and a
\* picked colour has been imported
C14_Witness ==
    /\ ImportedDownload
    /\ Populated(last.file[1].exported)
    /\ last.file[1].exported.habits # <<>>
    /\ last.file[1].exported.showStreak # <<>>
    /\ last.file[1].exported.completedColor = "#22c55e"
    /\ viewMode = "grid"

\* C15: in every state reached from the empty document through addHabit,
\* toggleDay, saveCheckIn, resetHabit, saveHabitName, drag-reorder and
\* removeHabit, the days of each habit are strictly ascending by date, and
\* so hold no date twice.
C15_DaysAscendingNoDuplicates ==
    \A i \in 1..Len(habits) :
        /\ Ascending(habits[i].days)
        /\ Cardinality(Dates(habits[i].days)) = Len(habits[i].days)

\* C15 witness: after the check-in a habit holds the day of the check-in
\* after its grid and a clicked square of 2025 before it, and the habits
\* have been reordered.
C15_Witness ==
    /\ last.op = "saveCheckIn"
    /\ Len(habits) = 2
    /\ habits[1].id[2] > habits[2].id[2]
    /\ \E i \in 1..2 :
          LET days == habits[i].days
          IN  /\ days[1].date = FirstSquare
              /\ days[Len(days)].date = CheckInToday
              /\ Len(days) = Len(generateDates(zone, now, Nothing)) + 2

(***************************************************************************)
(* The streak when records are taken back.                                 *)
(***************************************************************************)
\* habit with its k latest records dated on or before today not completed
MarkTrailing(habit, today, k) ==
    LET days == habit.days
        upTo == {i \in 1..Len(days) : days[i].date <= today}
        m == Cardinality(upTo)
        marked == IF upTo = 1..m
                  THEN (m - k + 1)..m
                  ELSE {i \in upTo : Cardinality({j \in upTo : j >= i}) <= k}
    IN  [habit EXCEPT !.days = [i \in 1..Len(days) |->
            IF i \in marked THEN DayStatus(days[i].date, FALSE) ELSE days[i]]]

\* habit with no record completed
AllIncomplete(habit) ==
    [habit EXCEPT !.days = [i \in 1..Len(habit.days) |->
        DayStatus(habit.days[i].date, FALSE)]]

\* C16: for the habit just added, whatever its completed range, marking one
\* more of its latest records dated on or before today as not completed
\* never increases getCurrentStreak (in either version), and
\* getCurrentStreak is 0 once no record is completed.
C16_StreakMonotone ==
    JustAdded =>
        /\ LET marked == [k \in 0..MaxMarked |-> MarkTrailing(Added, Today, k)]
               streak == [k \in 0..MaxMarked |->
                            getCurrentStreak(zone, now, marked[k])]
               scan == [k \in 0..MaxMarked |->
                          getCurrentStreak_scan(zone, now, marked[k])]
           IN  \A k \in 0..(MaxMarked - 1) :
                   streak[k + 1] <= streak[k] /\ scan[k + 1] <= scan[k]
        /\ getCurrentStreak(zone, now, AllIncomplete(Added)) = 0
        /\ getCurrentStreak_scan(zone, now, AllIncomplete(Added)) = 0

\* C16 witness: a habit was added whose streak is positive in both
\* versions and falls when its latest record up to today is marked.
C16_Witness ==
    /\ JustAdded
    /\ getCurrentStreak(zone, now, Added) > 1
    /\ getCurrentStreak_scan(zone, now, Added) > 1
    /\ getCurrentStreak(zone, now, MarkTrailing(Added, Today, 1))
          < getCurrentStreak(zone, now, Added)
    /\ getCompletedDays(MarkTrailing(Added, Today, 1)) > 0

(***************************************************************************)
(* Properties of the reset.                                                *)
(***************************************************************************)
\* after has the dates of before in the same order and nothing completed
SameDatesNoneCompleted(before, after) ==
    /\ Len(after) = Len(before)
    /\ \A k \in 1..Len(before) :
          after[k].date = before[k].date /\ ~after[k].completed

\* C17: resetHabit(habitId) leaves every record of the habit with that id
\* not completed, with the same dates in the same order and the same id,
\* name and creation date, and leaves every habit with another id as it was.
C17_ResetClearsOneHabit ==
    [][last'.op = "resetHabit" =>
          /\ Len(habits') = Len(habits)
          /\ \A i \in 1..Len(habits) :
                IF habits[i].id = last'.id
                THEN /\ SameDatesNoneCompleted(habits[i].days, habits'[i].days)
                     /\ habits'[i] = [habits[i] EXCEPT !.days = habits'[i].days]
                ELSE habits'[i] = habits[i]]_vars

\* C17 witness: the first of two habits that both had completed days has
\* been reset: it has its grid with nothing completed and the other habit
\* still has completed days.
C17_Witness ==
    /\ last.op = "resetHabit"
    /\ Len(habits) = 2
    /\ habits[1].id = last.id
    /\ habits[2].id # last.id
    /\ Len(habits[1].days) = Len(generateDates(zone, now, Nothing))
    /\ getCompletedDays(habits[1]) = 0
    /\ getCompletedDays(habits[2]) > 1

(***************************************************************************)
(* Properties of the new-habit form.                                       *)
(***************************************************************************)
\* s is empty or has only spaces
Blank(s) == \A i \in 1..Len(s) : s[i] = Space

\* C18: addHabit with a name that is empty or only whitespace changes
\* nothing: the habits, the inputs of the form, the preferences and the
\* pending autosave are as before, nothing is written, logged or alerted;
\* and the habit addHabit creates has a name that is not blank.
C18_BlankNameAddsNothing ==
    [][last'.op = "addHabit" =>
          /\ Blank(newHabitName) =>
                /\ ~last'.added
                /\ doc' = doc
                /\ form' = form
                /\ timer' = timer
                /\ storage' = storage
                /\ alertOpen' = alertOpen
          /\ last'.added =>
                /\ Len(habits') = Len(habits) + 1
                /\ ~Blank(habits'[Len(habits')].name)]_vars

\* C18 witness: addHabit has run on a form that holds a single space as the
\* name and a picked date; the form is still open and holds both.
C18_Witness ==
    /\ last.op = "addHabit"
    /\ ~last.added
    /\ showNewHabitForm
    /\ newHabitName = <<Space>>
    /\ dateStoppedInput # Nothing
    /\ habits = <<>>

(***************************************************************************)
(* Properties of a save that fails.                                        *)
(***************************************************************************)
\* what the user can do on the page
StillUsable ==
    /\ alertOpen => ENABLED DismissAlert
    /\ Interactive =>
          /\ \A value \in ViewModes : ENABLED SetViewMode(value)
          /\ \A id \in HabitIds : ENABLED ToggleShowStreak(id)
          /\ \A id \in HabitIds : ENABLED removeHabit(id)
          /\ ENABLED manualSave
          /\ ENABLED saveToFile
          /\ timer # Nothing => ENABLED TimerFires

\* C19: when an autosave or a manual save fails, at whatever step, the
\* error is logged (and alerted by the manual save), the document in memory
\* and the pending autosave are as before and lastSaved is not updated; and
\* once a save has failed, changes, autosaves, manual saves and exports can
\* still be made (after the alert, if any, is dismissed).
C19_FailedSaveIsReported ==
    /\ [][(last'.op = "opfsFail" /\ last'.by \in {"auto", "manual"}) =>
             /\ ErrorMessage(last'.by) \in consoleErrors'
             /\ last'.by = "manual" => alertOpen'
             /\ doc' = doc
             /\ timer' = timer
             /\ lastSaved' = lastSaved]_vars
    /\ [](consoleErrors # {} => StillUsable)

\* C19 witness: after an autosave that succeeded, a manual save has failed
\* while writing; the error is logged, the alert is open and lastSaved is
\* that of the autosave.
C19_Witness ==
    /\ last.op = "opfsFail"
    /\ last.by = "manual"
    /\ last.stage = "created"
    /\ alertOpen
    /\ consoleErrors = {"Error saving:"}
    /\ lastSaved # Nothing
    /\ habits # <<>>

\* the file holds the text of the document in memory
Persisted(d) == opfs = Just(JSONStringify(d))

FieldOr(data, key, default) == IF Has(data, key) THEN data[key] ELSE default

\* C21: when loadData ends and the user has done nothing since the mount,
\* then no error is logged or alerted and, if a document was read, habits,
\* completedColor, showStreak and viewMode are its fields, with [],
\* "#18181b", {} and "list" for the fields it does not have; if none was
\* read (no file, no text, not an object) the state is the empty default.
C21_LoadRestoresDocument ==
    [][(last.op = "mount" /\ last'.op = "loadData") =>
          /\ consoleErrors' = consoleErrors
          /\ ~alertOpen'
          /\ IF last'.read = Nothing
             THEN Doc' = HabitData(<<>>, DefaultColor, <<>>, "list")
             ELSE LET data == last'.read[1]
                  IN  Doc' = HabitData(FieldOr(data, "habits", <<>>),
                                       FieldOr(data, "completedColor", DefaultColor),
                                       FieldOr(data, "showStreak", <<>>),
                                       FieldOr(data, "viewMode", "list"))]_vars

(***************************************************************************)
(* Properties of the statistics of a card.                                 *)
(***************************************************************************)
\* C22: for every habit of every state, getCompletedDays is the number of
\* its records that are completed, and lies between 0 and the number of
\* its records.
C22_CompletedDaysCounts ==
    Mounted =>
        \A i \in 1..Len(habits) :
            LET days == habits[i].days
            IN  /\ getCompletedDays(habits[i])
                      = Len(SelectSeq(days, LAMBDA d : d.completed))
                /\ getCompletedDays(habits[i]) \in 0..Len(days)

\* C22 witness: a habit was loaded with three records, in no order and two
\* of them of one date, of which two are completed.
C22_Witness ==
    /\ last.op = "loadData"
    /\ Len(habits) = 1
    /\ Len(habits[1].days) = 3
    /\ ~Ascending(habits[1].days)
    /\ Cardinality(Dates(habits[1].days)) = 2
    /\ getCompletedDays(habits[1]) = 2

\* C23: for every habit of every state, whatever the order of its records,
\* getEarliestCompletedDate is the least date of its completed records,
\* and null when it has none.
C23_EarliestCompletedIsMinimum ==
    Mounted =>
        \A i \in 1..Len(habits) :
            LET done == CompletedIn(habits[i].days)
            IN  getEarliestCompletedDate(habits[i])
                    = IF done = {} THEN Nothing
                      ELSE Just(CHOOSE d \in done : \A e \in done : d <= e)

\* C23 witness: the habit has its completed records in descending order,
\* with a record that is not completed before them, and the earliest
\* completed date is that of the last record.
C23_Witness ==
    /\ Len(habits) = 1
    /\ Len(habits[1].days) = 3
    /\ ~habits[1].days[1].completed
    /\ habits[1].days[2].completed
    /\ habits[1].days[3].completed
    /\ habits[1].days[3].date < habits[1].days[2].date
    /\ getEarliestCompletedDate(habits[1]) = Just(habits[1].days[3].date)

(***************************************************************************)
(* Properties of what reaches the storage.                                 *)
(***************************************************************************)
\* C24: the habit data is written to storage only when the user asks for
\* it: every save to OPFS in flight was started by "Save Now" or by the
\* import of a file, none by the timer a change of the document has set,
\* and the file in OPFS changes only when such a save closes.
C24_WritesOnlyOnRequest ==
    [][/\ \A w \in writes' : w.by \in {"manual", "import"}
       /\ opfs' # opfs => last'.by \in {"manual", "import"}]_vars

(***************************************************************************)
(* Properties of the check-in.                                             *)
(***************************************************************************)
\* the records of days that are not of the date
OtherDates(days, date) == SelectSeq(days, LAMBDA d : d.date # date)

\* after is before with the selection as the status of today
Overridden(before, after, today, selection) ==
    /\ \E k \in 1..Len(after) : after[k].date = today
    /\ \A k \in 1..Len(after) :
          after[k].date = today => after[k].completed = selection
    /\ OtherDates(after, today) = OtherDates(before, today)
    /\ Len(after) = Len(before) + (IF DateExists(before, today) THEN 0 ELSE 1)
    /\ Ascending(before) => Ascending(after)

\* C25: the button "Save" of the check-in gives every habit whose selection
\* is true or false a record of today with the selection as its status,
\* changed in place or inserted in date order, and leaves its other
\* records, and the habits with no selection, as they were; the check-in
\* mode is then off and the selections are empty.
C25_CheckInOverridesToday ==
    [][last'.op = "saveCheckIn" =>
          /\ ~checkInMode'
          /\ checkInSelections' = <<>>
          /\ Len(habits') = Len(habits)
          /\ \A i \in 1..Len(habits) :
                IF Selected(checkInSelections, habits[i].id)
                THEN /\ Overridden(habits[i].days, habits'[i].days, Today,
                                   checkInSelections[habits[i].id][1])
                     /\ habits'[i] = [habits[i] EXCEPT !.days = habits'[i].days]
                ELSE habits'[i] = habits[i]]_vars

\* C30: a check-in in which the user has made a selection and every habit
\* has one does not stay open: it has been saved and closed; and the
\* check-in that startCheckIn has just opened is open and not saved,
\* whatever selections it starts with.
C30_CheckInCommitsWhenComplete ==
    /\ (checkInMode /\ checkInHasInteracted /\ habits # <<>>) =>
            \E i \in 1..Len(habits) : ~Selected(checkInSelections, habits[i].id)
    /\ last.op = "startCheckIn" => (checkInMode /\ ~checkInHasInteracted)

\* C26: what the user did while the initial load was pending is not lost:
\* every habit in memory when loadData finishes is still in memory after it.
C26_LoadKeepsEarlierMutation ==
    [][last'.op = "loadData" =>
          \A i \in 1..Len(habits) :
              \E j \in 1..Len(habits') : habits'[j].id = habits[i].id]_vars

\* the habits of a document's JSON text
WrittenHabits(text) == JSONParse(text)["habits"]

\* C29: the autosave never writes a document without habits: while the
\* list is empty no timer is armed, an armed timer and every save the timer
\* started carry a list that is not empty, and the stored file is either
\* the one the page opened on or a document with habits.
C29_AutosaveSkipsEmptyDocument ==
    /\ habits = <<>> => timer = Nothing
    /\ timer # Nothing => timer[1].habits # <<>>
    /\ \A w \in writes : w.by = "auto" => WrittenHabits(w.data) # <<>>
    /\ opfs \in Stored \/ WrittenHabits(opfs[1]) # <<>>

\* the last habit has just been removed and the timer that the list had
\* armed is cancelled
C29_Witness ==
    /\ last.op = "removeHabit"
    /\ habits = <<>>
    /\ timer = Nothing
    /\ opfs # Nothing

\* C27: the habits of the document have pairwise distinct ids.
C27_HabitIdsDistinct ==
    \A i, j \in 1..Len(habits) : i # j => habits[i].id # habits[j].id

\* the zone without its daylight time, and the instant at which its wall
\* clock reads what the clock of the page reads now
NoDst(z) == [z EXCEPT !.dst = "none"]
NoDstNow == FromLocal(NoDst(zone), LocalHours(zone, now))

\* the dates of a grid, in order
DateSeq(days) == [i \in 1..Len(days) |-> days[i].date]

\* the dates are consecutive days that end with the day last
RunsTo(days, end) ==
    /\ days # <<>>
    /\ \A i \in 1..Len(days) : days[i].date = end - (Len(days) - i)

\* the grid the older lookback component builds for the same input
AddedMillis == generateDates_millis(zone, now, last.stop)

\* C28: in a zone with daylight time the grid of a new habit has the dates
\* it has in the same zone without daylight time, and they are consecutive
\* days up to the last day of the window (December 31 in the calendar-year
\* component, today in the lookback component).
C28_GridImmuneToDst ==
    (last.op = "addHabit" /\ last.added /\ zone.dst # "none") =>
        /\ DateSeq(Added.days)
               = DateSeq(generateDates(NoDst(zone), NoDstNow, last.stop))
        /\ RunsTo(Added.days, DaysFromCivil(GetFullYear(zone, now), 12, 31))
        /\ DateSeq(AddedMillis)
               = DateSeq(generateDates_millis(NoDst(zone), NoDstNow, last.stop))
        /\ RunsTo(AddedMillis, Today)

====
